---- MODULE Spec2Model ----
(***************************************************************************)
(* Model of the range-requests crate: the Range / Content-Range header     *)
(* types, their parsers and serializers, the matching predicate and the    *)
(* resolution engine file_range.                                           *)
(*                                                                         *)
(* Text is a sequence of one-character strings.  u64 is the interval       *)
(* 0..U64_MAX; arithmetic that can leave the interval is modelled as the   *)
(* code performs it (checked_sub, checked_add, parse overflow).            *)
(***************************************************************************)
EXTENDS Integers, Sequences, FiniteSets, TLC

\* Largest value of the unsigned integer type of the model (u64::MAX scaled down).
U64_MAX == 10

U64 == 0..U64_MAX

\* ------------------------------------------------------------------------
\* Option / Result encodings
\* ------------------------------------------------------------------------
None == [tag |-> "None"]

Some(v) == [tag |-> "Some", val |-> v]

Ok(v) == [tag |-> "Ok", val |-> v]

Err(e) == [tag |-> "Err", err |-> e]

\* ------------------------------------------------------------------------
\* Text helpers (std::str)
\* ------------------------------------------------------------------------
DigitChars == <<"0", "1", "2", "3", "4", "5", "6", "7", "8", "9">>

IsDigit(c) == \E i \in 1..10 : DigitChars[i] = c

DigitVal(c) == (CHOOSE i \in 1..10 : DigitChars[i] = c) - 1

\* <u64 as Display>::fmt : decimal, no sign, no leading zeros.
RECURSIVE u64_to_string(_)
u64_to_string(n) ==
    IF n < 10 THEN <<DigitChars[n + 1]>>
    ELSE u64_to_string(n \div 10) \o <<DigitChars[(n % 10) + 1]>>

\* Accumulation loop of <u64 as FromStr>: every character must be a digit and
\* the running value must stay within u64.
RECURSIVE ParseDigits(_, _)
ParseDigits(s, acc) ==
    IF s = <<>> THEN Ok(acc)
    ELSE IF ~IsDigit(Head(s)) THEN Err("InvalidDigit")
    ELSE IF acc * 10 + DigitVal(Head(s)) > U64_MAX THEN Err("PosOverflow")
    ELSE ParseDigits(Tail(s), acc * 10 + DigitVal(Head(s)))

\* <u64 as FromStr>::from_str : an empty string fails, one leading '+' is
\* accepted and skipped (a lone sign fails), '-' is not a digit.
u64_from_str(s) ==
    IF s = <<>> THEN Err("Empty")
    ELSE IF Head(s) = "+"
         THEN IF Tail(s) = <<>> THEN Err("InvalidDigit") ELSE ParseDigits(Tail(s), 0)
         ELSE ParseDigits(s, 0)

starts_with(s, c) == s # <<>> /\ Head(s) = c

\* Position of the first occurrence of character c in s, 0 when absent.
FirstIndex(s, c) ==
    IF \E i \in 1..Len(s) : s[i] = c
    THEN CHOOSE i \in 1..Len(s) : s[i] = c /\ \A j \in 1..(i - 1) : s[j] # c
    ELSE 0

\* str::split_once with a one-character delimiter.
split_once(s, c) ==
    LET i == FirstIndex(s, c)
    IN  IF i = 0 THEN None
        ELSE Some([left |-> SubSeq(s, 1, i - 1), right |-> SubSeq(s, i + 1, Len(s))])

RECURSIVE trim_start(_)
trim_start(s) ==
    IF s # <<>> /\ Head(s) = " " THEN trim_start(Tail(s)) ELSE s

RECURSIVE trim_end(_)
trim_end(s) ==
    IF s # <<>> /\ s[Len(s)] = " " THEN trim_end(SubSeq(s, 1, Len(s) - 1)) ELSE s

\* str::trim ; the space is the only whitespace character of the input texts.
trim(s) == trim_end(trim_start(s))

\* ------------------------------------------------------------------------
\* headers/mod.rs
\* ------------------------------------------------------------------------
UNIT == <<"b", "y", "t", "e", "s">>

\* OrderedRange::new
OrderedRange_new(start, end) ==
    IF start > end
    THEN Err("InvalidOrderedRange")
    ELSE Ok([start |-> start, end |-> end])

\* impl Display for OrderedRange
OrderedRange_fmt(r) ==
    UNIT \o <<"=">> \o u64_to_string(r.start) \o <<"-">> \o u64_to_string(r.end)

\* u64_unprefixed_parse
u64_unprefixed_parse(s) ==
    IF starts_with(s, "+") THEN Err("HasSignPrefix")
    ELSE LET r == u64_from_str(s)
         IN  IF r.tag = "Ok" THEN r ELSE Err("InvalidInt")

\* ------------------------------------------------------------------------
\* headers/range.rs
\* ------------------------------------------------------------------------
\* enum HttpRange
StartingPoint(start) == [tag |-> "StartingPoint", start |-> start]

Range(o) == [tag |-> "Range", range |-> o]

Suffix(suffix) == [tag |-> "Suffix", suffix |-> suffix]

\* Arm (false, false) of HttpRange::from_str: both pieces present.
RangeArm(start_str, end_str) ==
    LET start == u64_unprefixed_parse(start_str)
        end == u64_unprefixed_parse(end_str)
    IN  IF start.tag = "Err" THEN Err("InvalidRangePiece")
        ELSE IF end.tag = "Err" THEN Err("InvalidRangePiece")
        ELSE LET range == OrderedRange_new(start.val, end.val)
             IN  IF range.tag = "Err" THEN Err("UnorderedRange")
                 ELSE Ok(Range(range.val))

\* Arm (false, true) of HttpRange::from_str: "<start>-".
StartingPointArm(start_str) ==
    LET start == u64_from_str(start_str)
    IN  IF start.tag = "Err" THEN Err("MalformedRange")
        ELSE Ok(StartingPoint(start.val))

\* Arm (true, false) of HttpRange::from_str: "-<suffix>".
SuffixArm(end_str) ==
    LET suffix == u64_from_str(end_str)
    IN  IF suffix.tag = "Err" THEN Err("MalformedRange")
        ELSE Ok(Suffix(suffix.val))

\* HttpRange::from_str looking for the '-' before it compares the unit.
HttpRange_from_str_DashBeforeUnit(text) ==
    LET s == trim(text)
    IN  IF s = <<>> THEN Err("Empty")
        ELSE LET sp == split_once(s, "=")
             IN  IF sp.tag = "None" THEN Err("Malformed")
                 ELSE LET rp == split_once(sp.val.right, "-")
                      IN  IF rp.tag = "None" THEN Err("MalformedRange")
                          ELSE IF sp.val.left # UNIT THEN Err("InvalidUnit")
                          ELSE LET start_str == rp.val.left
                                   end_str == rp.val.right
                               IN  CASE start_str # <<>> /\ end_str # <<>> ->
                                            RangeArm(start_str, end_str)
                                     [] start_str # <<>> /\ end_str = <<>> ->
                                            StartingPointArm(start_str)
                                     [] start_str = <<>> /\ end_str # <<>> ->
                                            SuffixArm(end_str)
                                     [] OTHER -> Err("Malformed")

\* impl FromStr for HttpRange
HttpRange_from_str(text) ==
    LET s == trim(text)
    IN  IF s = <<>> THEN Err("Empty")
        ELSE LET sp == split_once(s, "=")
             IN  IF sp.tag = "None" THEN Err("Malformed")
                 ELSE IF sp.val.left # UNIT THEN Err("InvalidUnit")
                 ELSE LET rp == split_once(sp.val.right, "-")
                      IN  IF rp.tag = "None" THEN Err("MalformedRange")
                          ELSE LET start_str == rp.val.left
                                   end_str == rp.val.right
                               IN  CASE start_str # <<>> /\ end_str # <<>> ->
                                            RangeArm(start_str, end_str)
                                     [] start_str # <<>> /\ end_str = <<>> ->
                                            StartingPointArm(start_str)
                                     [] start_str = <<>> /\ end_str # <<>> ->
                                            SuffixArm(end_str)
                                     [] OTHER -> Err("Malformed")

\* impl Display for HttpRange
HttpRange_fmt(v) ==
    CASE v.tag = "StartingPoint" -> UNIT \o <<"=">> \o u64_to_string(v.start) \o <<"-">>
      [] v.tag = "Range" -> UNIT \o <<"=">> \o OrderedRange_fmt(v.range)
      [] v.tag = "Suffix" -> UNIT \o <<"=", "-">> \o u64_to_string(v.suffix)

\* ------------------------------------------------------------------------
\* headers/content_range.rs
\* ------------------------------------------------------------------------
\* enum HttpContentRange / struct Bound / struct Unsatisfiable
Bound(range, size) == [tag |-> "Bound", range |-> range, size |-> size]

\* Unsatisfiable::new
Unsatisfiable(size) == [tag |-> "Unsatisfiable", size |-> size]

\* Bound::new
Bound_new(start, end, size) ==
    LET range == OrderedRange_new(start, end)
    IN  IF range.tag = "Err" THEN Err("InvalidRange")
        ELSE IF size.tag = "Some" /\ range.val.end >= size.val THEN Err("InvalidSize")
        ELSE Ok(Bound(range.val, size))

\* u64::checked_add
checked_add(a, b) == IF a + b > U64_MAX THEN None ELSE Some(a + b)

\* u64::checked_sub
checked_sub(a, b) == IF a < b THEN None ELSE Some(a - b)

\* The (Suffix, Bound) arm with a wrapping + 1 instead of checked_add.
SuffixMatchesBoundWrapping(suffix, range) ==
    ((range.end - range.start) + 1) % (U64_MAX + 1) = suffix

\* Arm (Suffix, Bound) of matches_requested_range.
SuffixMatchesBound(suffix, range) ==
    checked_add(range.end - range.start, 1) = Some(suffix)

\* HttpContentRange::matches_requested_range
matches_requested_range(self, expected_range) ==
    CASE expected_range.tag = "StartingPoint" /\ self.tag = "Bound" ->
             expected_range.start = self.range.start
      [] expected_range.tag = "Range" /\ self.tag = "Bound" ->
             /\ expected_range.range.start = self.range.start
             /\ expected_range.range.end = self.range.end
      [] expected_range.tag = "Suffix" /\ self.tag = "Bound" ->
             SuffixMatchesBound(expected_range.suffix, self.range)
      [] expected_range.tag = "StartingPoint" /\ self.tag = "Unsatisfiable" ->
             expected_range.start >= self.size
      [] expected_range.tag = "Range" /\ self.tag = "Unsatisfiable" ->
             expected_range.range.end >= self.size
      [] expected_range.tag = "Suffix" /\ self.tag = "Unsatisfiable" ->
             expected_range.suffix > self.size

\* ParsedRange::from_str with an explicit test for an empty half.
ParsedRange_from_str_EmptyHalfMalformed(s) ==
    IF s = <<"*">> THEN Ok([tag |-> "Star"])
    ELSE LET rp == split_once(s, "-")
         IN  IF rp.tag = "None" THEN Err("MalformedRange")
             ELSE IF rp.val.left = <<>> \/ rp.val.right = <<>> THEN Err("MalformedRange")
             ELSE LET start == u64_unprefixed_parse(rp.val.left)
                      end == u64_unprefixed_parse(rp.val.right)
                  IN  IF start.tag = "Err" THEN Err("InvalidRangePiece")
                      ELSE IF end.tag = "Err" THEN Err("InvalidRangePiece")
                      ELSE LET range == OrderedRange_new(start.val, end.val)
                           IN  IF range.tag = "Err" THEN Err("UnorderedRange")
                               ELSE Ok([tag |-> "Range", range |-> range.val])

\* impl FromStr for ParsedRange
ParsedRange_from_str(s) ==
    IF s = <<"*">> THEN Ok([tag |-> "Star"])
    ELSE LET rp == split_once(s, "-")
         IN  IF rp.tag = "None" THEN Err("MalformedRange")
             ELSE LET start == u64_unprefixed_parse(rp.val.left)
                      end == u64_unprefixed_parse(rp.val.right)
                  IN  IF start.tag = "Err" THEN Err("InvalidRangePiece")
                      ELSE IF end.tag = "Err" THEN Err("InvalidRangePiece")
                      ELSE LET range == OrderedRange_new(start.val, end.val)
                           IN  IF range.tag = "Err" THEN Err("UnorderedRange")
                               ELSE Ok([tag |-> "Range", range |-> range.val])

\* impl FromStr for ParsedSize
ParsedSize_from_str(s) ==
    IF s = <<"*">> THEN Ok([tag |-> "Star"])
    ELSE LET size == u64_unprefixed_parse(s)
         IN  IF size.tag = "Err" THEN size
             ELSE Ok([tag |-> "Value", size |-> size.val])

\* The final match of HttpContentRange::from_str on (range, size).
Combine(range, size) ==
    CASE range.tag = "Star" /\ size.tag = "Star" -> Err("Malformed")
      [] range.tag = "Star" /\ size.tag = "Value" -> Ok(Unsatisfiable(size.size))
      [] range.tag = "Range" /\ size.tag = "Star" -> Ok(Bound(range.range, None))
      [] range.tag = "Range" /\ size.tag = "Value" ->
             Ok(Bound(range.range, Some(size.size)))

\* impl FromStr for HttpContentRange
HttpContentRange_from_str(text) ==
    LET s == trim(text)
    IN  IF s = <<>> THEN Err("Empty")
        ELSE LET sp == split_once(s, " ")
             IN  IF sp.tag = "None" THEN Err("Malformed")
                 ELSE IF sp.val.left # UNIT THEN Err("InvalidUnit")
                 ELSE LET rs == split_once(sp.val.right, "/")
                      IN  IF rs.tag = "None" THEN Err("Malformed")
                          ELSE LET range == ParsedRange_from_str(rs.val.left)
                                   size == ParsedSize_from_str(rs.val.right)
                               IN  IF range.tag = "Err" THEN range
                                   ELSE IF size.tag = "Err" THEN Err("InvalidSize")
                                   ELSE Combine(range.val, size.val)

\* impl Display for HttpContentRange
HttpContentRange_fmt(v) ==
    CASE v.tag = "Bound" /\ v.size.tag = "Some" ->
             UNIT \o <<" ">> \o OrderedRange_fmt(v.range) \o <<"/">> \o u64_to_string(v.size.val)
      [] v.tag = "Bound" /\ v.size.tag = "None" ->
             UNIT \o <<" ">> \o OrderedRange_fmt(v.range) \o <<"/", "*">>
      [] v.tag = "Unsatisfiable" ->
             UNIT \o <<" ", "*", "/">> \o u64_to_string(v.size)

\* ------------------------------------------------------------------------
\* lib.rs
\* ------------------------------------------------------------------------
\* Outcome of a call that hit a failed unwrap(): the thread panics.
Panic == [tag |-> "Panic"]

\* Ok(ContentRange { header, range }) ; range is a RangeInclusive<u64>.
ContentRange(header, start, end) ==
    [tag |-> "Ok", header |-> header, range |-> [start |-> start, end |-> end]]

\* Err(UnsatisfiableRange(header))
UnsatisfiableRange(header) == [tag |-> "Err", header |-> header]

\* Body shared by the three satisfiable arms of file_range:
\* Bound::new(start..=end, Some(size)).unwrap() and the Ok(ContentRange).
Satisfied(start, end, size) ==
    LET content_range == Bound_new(start, end, Some(size))
    IN  IF content_range.tag = "Err" THEN Panic
        ELSE ContentRange(Some(content_range.val), start, end)

\* The StartingPoint guard written with >= : start = size would be served.
StartingPointGuardInclusive(size, start) == size >= start

\* Guard of the StartingPoint arm.
StartingPointGuard(size, start) == size > start

\* The Range guard written with >= : end = size would be served.
RangeGuardInclusive(size, ordered_range) == size >= ordered_range.end

\* Guard of the Range arm.
RangeGuard(size, ordered_range) == size > ordered_range.end

\* The Suffix guard written as a strict comparison: suffix = size refused.
SuffixGuardStrict(size, suffix) == size > suffix

\* Guard of the Suffix arm.
SuffixGuard(size, suffix) == checked_sub(size, suffix).tag = "Some"

\* The early return with the window ending at size instead of size - 1.
WholeFileToSize(size) == ContentRange(None, 0, size)

\* Early return of file_range when no Range was requested.
WholeFile(size) == ContentRange(None, 0, size - 1)

\* file_range ; size is the value of a NonZero<u64>.
file_range(size, http_range) ==
    IF http_range.tag = "None" THEN WholeFile(size)
    ELSE LET r == http_range.val
         IN  CASE r.tag = "StartingPoint" /\ StartingPointGuard(size, r.start) ->
                      Satisfied(r.start, size - 1, size)
               [] r.tag = "Range" /\ RangeGuard(size, r.range) ->
                      Satisfied(r.range.start, r.range.end, size)
               [] r.tag = "Suffix" /\ SuffixGuard(size, r.suffix) ->
                      Satisfied(size - r.suffix, size - 1, size)
               [] OTHER -> UnsatisfiableRange(Unsatisfiable(size))

\* NonZeroU64::try_from without the zero test.
NonZeroU64_try_from_unchecked(size) == Ok(size)

\* NonZeroU64::try_from(size)
NonZeroU64_try_from(size) == IF size = 0 THEN Err("TryFromIntError") ELSE Ok(size)

\* Bytes::slice(start..=end) : panics when the range is decreasing or ends
\* past the buffer.
slice(body, start, end) ==
    IF start > end + 1 \/ end + 1 > Len(body) THEN Panic
    ELSE Ok(SubSeq(body, start + 1, end + 1))

\* serve_file_with_http_range ; steps lists the calls the function made, in
\* order.
serve_file_with_http_range(body, http_range) ==
    LET size == NonZeroU64_try_from(Len(body))
    IN  IF size.tag = "Err"
        THEN [tag |-> "Err", header |-> Unsatisfiable(Len(body)), steps |-> <<>>]
        ELSE LET content_range == file_range(size.val, http_range)
             IN  IF content_range.tag = "Err"
                 THEN [tag |-> "Err", header |-> content_range.header,
                       steps |-> <<"file_range">>]
                 ELSE IF content_range.tag = "Panic"
                 THEN [tag |-> "Panic", steps |-> <<"file_range">>]
                 ELSE LET sliced == slice(body, content_range.range.start,
                                          content_range.range.end)
                      IN  IF sliced.tag = "Panic"
                          THEN [tag |-> "Panic", steps |-> <<"file_range", "slice">>]
                          ELSE [tag |-> "Ok", body |-> sliced.val,
                                header |-> content_range.header,
                                steps |-> <<"file_range", "slice">>]

\* ------------------------------------------------------------------------
\* Inputs
\* ------------------------------------------------------------------------
OptionU64 == {None} \cup {Some(n) : n \in U64}

\* Every value OrderedRange::new accepts.
OrderedRanges == {o \in [start : U64, end : U64] : o.start <= o.end}

\* Every HttpRange value: the variants are public, the OrderedRange is validated.
HttpRanges ==
    {StartingPoint(n) : n \in U64} \cup {Range(o) : o \in OrderedRanges}
        \cup {Suffix(n) : n \in U64}

OptionHttpRange == {None} \cup {Some(r) : r \in HttpRanges}

\* Every HttpContentRange value that Bound::new, Unsatisfiable::new or
\* HttpContentRange::from_str can return.
HttpContentRanges ==
    {Bound(o, s) : o \in OrderedRanges, s \in OptionU64}
        \cup {Unsatisfiable(n) : n \in U64}

\* The in-memory buffers: n bytes 0, 1, ..., n-1, the empty buffer included.
Bodies == {<<>>} \cup {[i \in 1..n |-> i - 1] : n \in 1..U64_MAX}

\* NonZero<u64>
NonZeroU64 == 1..U64_MAX

\* Values written with an explicit '+' in the input texts.
SignedSample == {0, 3, U64_MAX}

\* Candidate integer tokens: empty, not a number, every u64, one past the
\* largest u64, and sign-prefixed numbers.
NumTokens ==
    {<<>>, <<"x">>} \cup {u64_to_string(n) : n \in 0..(U64_MAX + 1)}
        \cup {<<"+">> \o u64_to_string(n) : n \in SignedSample}

Padding == {<<>>, <<" ">>}

\* Candidate unit tokens of a Range text: the unit, another unit, the unit in
\* another case, no unit, the unit followed by a space.
RangeUnits ==
    {UNIT, <<"b", "i", "t", "s">>, <<"B", "y", "t", "e", "s">>, <<>>,
     <<"b", "y", "t", "e", "s", " ">>}

\* Candidate Range header texts.
RangeTexts ==
    {pad \o unit \o eq \o a \o dash \o b \o pad :
        pad \in Padding, unit \in RangeUnits,
        eq \in {<<"=">>, <<>>}, dash \in {<<"-">>, <<>>},
        a \in NumTokens, b \in NumTokens}

\* Candidate left sides of the '/' of a Content-Range text.
RangeSides ==
    {<<"*">>} \cup NumTokens \cup {a \o <<"-">> \o b : a \in NumTokens, b \in NumTokens}

\* Candidate right sides of the '/' of a Content-Range text.
SizeSides == {<<"*">>} \cup NumTokens

\* unit, separator after the unit, separator between range and size.
Frames ==
    {<<UNIT, <<" ">>, <<"/">>>>, <<<<"b", "i", "t", "s">>, <<" ">>, <<"/">>>>,
     <<UNIT, <<>>, <<"/">>>>, <<UNIT, <<" ">>, <<>>>>}

\* Candidate Content-Range header texts.
ContentRangeTexts ==
    {f[1] \o f[2] \o r \o f[3] \o s : f \in Frames, r \in RangeSides, s \in SizeSides}

\* ------------------------------------------------------------------------
\* State: one call of the public interface and what it returned.
\* ------------------------------------------------------------------------
VARIABLES
    call,     \* the function called and its arguments
    ret,      \* Pending until the call has run, then its return value
    origin    \* Some(v) when call.text is the serialization of the value v

vars == <<call, ret, origin>>

Pending == [tag |-> "Pending"]

Text(s) == [tag |-> "Text", text |-> s]

FileRangeCalls ==
    {[fn |-> "file_range", size |-> n, http_range |-> r] :
        n \in NonZeroU64, r \in OptionHttpRange}

BoundNewCalls ==
    {[fn |-> "Bound::new", start |-> s, end |-> e, size |-> n] :
        s \in U64, e \in U64, n \in OptionU64}

RangeFromStrCalls == {[fn |-> "HttpRange::from_str", text |-> s] : s \in RangeTexts}

ContentRangeFromStrCalls ==
    {[fn |-> "HttpContentRange::from_str", text |-> s] : s \in ContentRangeTexts}

RangeToStringCalls == {[fn |-> "HttpRange::to_string", self |-> v] : v \in HttpRanges}

ContentRangeToStringCalls ==
    {[fn |-> "HttpContentRange::to_string", self |-> v] : v \in HttpContentRanges}

MatchesCalls ==
    {[fn |-> "matches_requested_range", self |-> v, expected_range |-> r] :
        v \in HttpContentRanges, r \in HttpRanges}

ServeCalls ==
    {[fn |-> "serve_file_with_http_range", body |-> b, http_range |-> r] :
        b \in Bodies, r \in OptionHttpRange}

Init ==
    /\ \/ call \in FileRangeCalls
       \/ call \in ServeCalls
       \/ call \in BoundNewCalls
       \/ call \in RangeFromStrCalls
       \/ call \in ContentRangeFromStrCalls
       \/ call \in RangeToStringCalls
       \/ call \in ContentRangeToStringCalls
       \/ call \in MatchesCalls
    /\ ret = Pending
    /\ origin = None

Starts(fn) == call.fn = fn /\ ret.tag = "Pending"

CallFileRange ==
    /\ Starts("file_range")
    /\ ret' = file_range(call.size, call.http_range)
    /\ UNCHANGED <<call, origin>>

CallServe ==
    /\ Starts("serve_file_with_http_range")
    /\ ret' = serve_file_with_http_range(call.body, call.http_range)
    /\ UNCHANGED <<call, origin>>

CallBoundNew ==
    /\ Starts("Bound::new")
    /\ ret' = Bound_new(call.start, call.end, call.size)
    /\ UNCHANGED <<call, origin>>

ParseRange ==
    /\ Starts("HttpRange::from_str")
    /\ ret' = HttpRange_from_str(call.text)
    /\ UNCHANGED <<call, origin>>

ParseContentRange ==
    /\ Starts("HttpContentRange::from_str")
    /\ ret' = HttpContentRange_from_str(call.text)
    /\ UNCHANGED <<call, origin>>

DisplayRange ==
    /\ Starts("HttpRange::to_string")
    /\ ret' = Text(HttpRange_fmt(call.self))
    /\ UNCHANGED <<call, origin>>

DisplayContentRange ==
    /\ Starts("HttpContentRange::to_string")
    /\ ret' = Text(HttpContentRange_fmt(call.self))
    /\ UNCHANGED <<call, origin>>

CallMatches ==
    /\ Starts("matches_requested_range")
    /\ ret' = [tag |-> "Bool", val |-> matches_requested_range(call.self, call.expected_range)]
    /\ UNCHANGED <<call, origin>>

\* The text a serializer produced is handed to the parser of the same header.
ReparseRange ==
    /\ call.fn = "HttpRange::to_string"
    /\ ret.tag = "Text"
    /\ call' = [fn |-> "HttpRange::from_str", text |-> ret.text]
    /\ origin' = Some(call.self)
    /\ ret' = Pending

ReparseContentRange ==
    /\ call.fn = "HttpContentRange::to_string"
    /\ ret.tag = "Text"
    /\ call' = [fn |-> "HttpContentRange::from_str", text |-> ret.text]
    /\ origin' = Some(call.self)
    /\ ret' = Pending

\* The Content-Range file_range produced for a requested range is compared
\* with that range.
MatchResponse ==
    /\ call.fn = "file_range"
    /\ call.http_range.tag = "Some"
    /\ ret.tag \in {"Ok", "Err"}
    /\ call' = [fn |-> "matches_requested_range",
                self |-> IF ret.tag = "Ok" THEN ret.header.val ELSE ret.header,
                expected_range |-> call.http_range.val,
                resolved_size |-> call.size]
    /\ ret' = Pending
    /\ UNCHANGED origin

Next ==
    \/ CallFileRange
    \/ CallServe
    \/ CallBoundNew
    \/ ParseRange
    \/ ParseContentRange
    \/ DisplayRange
    \/ DisplayContentRange
    \/ CallMatches
    \/ ReparseRange
    \/ ReparseContentRange
    \/ MatchResponse

Spec == Init /\ [][Next]_vars

Done == ret.tag # "Pending"

\* ------------------------------------------------------------------------
\* Properties
\* ------------------------------------------------------------------------
\* file_range has returned for a request of the given variant.
Resolved(variant) ==
    /\ call.fn = "file_range"
    /\ Done
    /\ call.http_range.tag = "Some"
    /\ call.http_range.val.tag = variant

\* The success a satisfiable request must produce: window [start, end] and
\* the header Bound{start-end, size: Some(size)}.
IsSuccess(r, start, end, size) ==
    /\ r.tag = "Ok"
    /\ r.range.start = start
    /\ r.range.end = end
    /\ r.header.tag = "Some"
    /\ r.header.val.tag = "Bound"
    /\ r.header.val.range.start = start
    /\ r.header.val.range.end = end
    /\ r.header.val.size.tag = "Some"
    /\ r.header.val.size.val = size

\* The error outcome carrying Unsatisfiable{size}.
IsUnsatisfiable(r, size) ==
    /\ r.tag = "Err"
    /\ r.header.tag = "Unsatisfiable"
    /\ r.header.size = size

\* C1: for every size >= 1, file_range(size, Some(Suffix(0))) returns a
\* success whose window is the empty inclusive range [size, size-1].
C1_SuffixZeroIsEmptyWindow ==
    (Resolved("Suffix") /\ call.http_range.val.suffix = 0) =>
        /\ ret.tag = "Ok"
        /\ ret.range.start = call.size
        /\ ret.range.end = call.size - 1

\* The Bound values the finished call handed to its caller.
ReturnedBounds ==
    IF ~Done \/ ret.tag # "Ok" THEN {}
    ELSE CASE call.fn = "Bound::new" -> {ret.val}
           [] call.fn = "file_range" ->
                  IF ret.header.tag = "Some" THEN {ret.header.val} ELSE {}
           [] call.fn = "HttpContentRange::from_str" ->
                  IF ret.val.tag = "Bound" THEN {ret.val} ELSE {}
           [] OTHER -> {}

\* C2: every Bound obtained from Bound::new, file_range or parsing a
\* Content-Range text has range.end < size whenever its size is known.
C2_BoundEndBelowSize ==
    \A b \in ReturnedBounds : b.size.tag = "Some" => b.range.end < b.size.val

\* C3: parsing the serialized text of an HttpRange or HttpContentRange value
\* succeeds and yields that value.
C3_RoundTrip ==
    (origin.tag = "Some" /\ Done) => (ret.tag = "Ok" /\ ret.val = origin.val)

\* An integer token of the text begins with '+': the '+' is the first
\* character or follows one of the separators of the two grammars.
HasSignedToken(s) ==
    \E i \in 1..Len(s) :
        /\ s[i] = "+"
        /\ (i = 1 \/ s[i - 1] \in {"=", "-", " ", "/"})

\* C4: no Range or Content-Range text with an integer token that begins with
\* '+' parses successfully.
C4_SignPrefixRejected ==
    (/\ call.fn \in {"HttpRange::from_str", "HttpContentRange::from_str"}
     /\ Done
     /\ HasSignedToken(call.text)) => ret.tag = "Err"

\* "<start>-<end>"
Dashed(start, end) == u64_to_string(start) \o <<"-">> \o u64_to_string(end)

\* The text the header grammars prescribe for a value: one unit token.
GrammarText(v) ==
    CASE v.tag = "StartingPoint" -> UNIT \o <<"=">> \o u64_to_string(v.start) \o <<"-">>
      [] v.tag = "Range" -> UNIT \o <<"=">> \o Dashed(v.range.start, v.range.end)
      [] v.tag = "Suffix" -> UNIT \o <<"=", "-">> \o u64_to_string(v.suffix)
      [] v.tag = "Bound" /\ v.size.tag = "Some" ->
             UNIT \o <<" ">> \o Dashed(v.range.start, v.range.end) \o <<"/">>
                 \o u64_to_string(v.size.val)
      [] v.tag = "Bound" /\ v.size.tag = "None" ->
             UNIT \o <<" ">> \o Dashed(v.range.start, v.range.end) \o <<"/", "*">>
      [] v.tag = "Unsatisfiable" -> UNIT \o <<" ", "*", "/">> \o u64_to_string(v.size)

\* C5: serialization emits exactly one unit token: HttpRange serializes to
\* "bytes=<start>-", "bytes=<start>-<end>" or "bytes=-<suffix>" and
\* HttpContentRange to "bytes <start>-<end>/<size>", "bytes <start>-<end>/*"
\* or "bytes */<size>".
C5_SerializedForms ==
    (call.fn \in {"HttpRange::to_string", "HttpContentRange::to_string"} /\ Done) =>
        ret.text = GrammarText(call.self)

\* C6: file_range(size, Some(StartingPoint(start))) succeeds exactly when
\* size > start, with window [start, size-1] and header
\* Bound{start-(size-1), size: Some(size)}; otherwise it returns the error
\* carrying Unsatisfiable{size}.
C6_StartingPoint ==
    Resolved("StartingPoint") =>
        LET start == call.http_range.val.start
        IN  IF call.size > start
            THEN IsSuccess(ret, start, call.size - 1, call.size)
            ELSE IsUnsatisfiable(ret, call.size)

\* C6 witness: the last byte alone is requested and served.
C6_Witness ==
    /\ Resolved("StartingPoint")
    /\ call.http_range.val.start = call.size - 1
    /\ call.size > 1
    /\ ret.tag = "Ok"

\* C7: file_range(size, Some(Range(o))) succeeds exactly when size > o.end,
\* with window [o.start, o.end] and header Bound{o, size: Some(size)};
\* when o.end >= size it returns the error carrying Unsatisfiable{size}.
C7_Range ==
    Resolved("Range") =>
        LET o == call.http_range.val.range
        IN  IF call.size > o.end
            THEN IsSuccess(ret, o.start, o.end, call.size)
            ELSE IsUnsatisfiable(ret, call.size)

\* C7 witness: the off-by-one boundary o.end = size is refused.
C7_Witness ==
    /\ Resolved("Range")
    /\ call.http_range.val.range.end = call.size
    /\ call.http_range.val.range.start > 0
    /\ ret.tag = "Err"

\* C8: for suffix n >= 1, file_range(size, Some(Suffix(n))) succeeds exactly
\* when n <= size, with window [size-n, size-1] and header
\* Bound{(size-n)-(size-1), size: Some(size)}; when n > size it returns the
\* error carrying Unsatisfiable{size}.
C8_Suffix ==
    (Resolved("Suffix") /\ call.http_range.val.suffix >= 1) =>
        LET n == call.http_range.val.suffix
        IN  IF n <= call.size
            THEN /\ IsSuccess(ret, call.size - n, call.size - 1, call.size)
                 /\ ret.range.end - ret.range.start + 1 = n
            ELSE IsUnsatisfiable(ret, call.size)

\* C8 witness: the whole resource is requested as a suffix and served.
C8_Witness ==
    /\ Resolved("Suffix")
    /\ call.http_range.val.suffix = call.size
    /\ call.size > 1
    /\ ret.tag = "Ok"
    /\ ret.range.start = 0

\* C9: file_range(size, None) returns success with window [0, size-1] and no
\* header, and every successful result for a requested range carries a
\* Bound header with size Some(size).
C9_HeaderAbsentOnlyWithoutRequest ==
    (call.fn = "file_range" /\ Done) =>
        /\ call.http_range.tag = "None" =>
               /\ ret.tag = "Ok"
               /\ ret.range.start = 0
               /\ ret.range.end = call.size - 1
               /\ ret.header.tag = "None"
        /\ (call.http_range.tag = "Some" /\ ret.tag = "Ok") =>
               /\ ret.header.tag = "Some"
               /\ ret.header.val.tag = "Bound"
               /\ ret.header.val.size.tag = "Some"
               /\ ret.header.val.size.val = call.size

\* C9 witness: a resource of more than one byte resolved without a request.
C9_Witness ==
    /\ call.fn = "file_range"
    /\ Done
    /\ call.http_range.tag = "None"
    /\ call.size > 1
    /\ ret.tag = "Ok"

\* The policy table of matches_requested_range, in unbounded integers.
PolicyTable(cr, r) ==
    CASE r.tag = "StartingPoint" /\ cr.tag = "Bound" -> r.start = cr.range.start
      [] r.tag = "Range" /\ cr.tag = "Bound" ->
             r.range.start = cr.range.start /\ r.range.end = cr.range.end
      [] r.tag = "Suffix" /\ cr.tag = "Bound" ->
             cr.range.end - cr.range.start + 1 = r.suffix
      [] r.tag = "StartingPoint" /\ cr.tag = "Unsatisfiable" -> r.start >= cr.size
      [] r.tag = "Range" /\ cr.tag = "Unsatisfiable" -> r.range.end >= cr.size
      [] r.tag = "Suffix" /\ cr.tag = "Unsatisfiable" -> r.suffix > cr.size

\* C10: matches_requested_range returns what the policy table prescribes for
\* every pair of values; a Suffix against a Bound whose length does not fit
\* the integer type does not match.
C10_MatchesPolicyTable ==
    (call.fn = "matches_requested_range" /\ Done) =>
        /\ ret.tag = "Bool"
        /\ ret.val = PolicyTable(call.self, call.expected_range)

\* C10 witness: Suffix(0) against the Bound whose length overflows on +1.
C10_Witness ==
    /\ call.fn = "matches_requested_range"
    /\ Done
    /\ call.expected_range.tag = "Suffix"
    /\ call.expected_range.suffix = 0
    /\ call.self.tag = "Bound"
    /\ call.self.range.start = 0
    /\ call.self.range.end = U64_MAX
    /\ ret.val = FALSE

\* C11: serve_file_with_http_range on a zero-length buffer returns the error
\* carrying Unsatisfiable{size: 0} for every optional range, also when no
\* Range was requested, and neither slices nor calls file_range.
C11_EmptyBufferUnsatisfiable ==
    (call.fn = "serve_file_with_http_range" /\ Done /\ Len(call.body) = 0) =>
        /\ IsUnsatisfiable(ret, 0)
        /\ ret.steps = <<>>

\* C11 witness: the empty buffer served without a Range request.
C11_Witness ==
    /\ call.fn = "serve_file_with_http_range"
    /\ Done
    /\ Len(call.body) = 0
    /\ call.http_range.tag = "None"
    /\ ret.tag = "Err"

\* Every character of the text is a space.
Blank(s) == \A i \in 1..Len(s) : s[i] = " "

\* The text without its leading and trailing spaces (s is not blank).
Core(s) ==
    LET first == CHOOSE i \in 1..Len(s) : s[i] # " " /\ \A j \in 1..(i - 1) : s[j] = " "
        last == CHOOSE i \in 1..Len(s) : s[i] # " " /\ \A j \in (i + 1)..Len(s) : s[j] = " "
    IN  [i \in 1..(last - first + 1) |-> s[first + i - 1]]

Contains(s, c) == \E i \in 1..Len(s) : s[i] = c

\* What follows the first occurrence of c in s (c occurs in s).
After(s, c) ==
    LET at == CHOOSE i \in 1..Len(s) : s[i] = c /\ \A j \in 1..(i - 1) : s[j] # c
    IN  [i \in 1..(Len(s) - at) |-> s[at + i]]

\* The text begins with the unit token immediately followed by '='.
UnitThenEquals(s) ==
    /\ Len(s) >= Len(UNIT) + 1
    /\ \A i \in 1..Len(UNIT) : s[i] = UNIT[i]
    /\ s[Len(UNIT) + 1] = "="

\* The error the fixed order of checks prescribes for a malformed Range
\* text, "none" when none of the five checks rejects it.
PrescribedError(text) ==
    IF Blank(text) THEN "Empty"
    ELSE LET s == Core(text)
         IN  IF ~Contains(s, "=") THEN "Malformed"
             ELSE IF ~UnitThenEquals(s) THEN "InvalidUnit"
             ELSE IF ~Contains(After(s, "="), "-") THEN "MalformedRange"
             ELSE IF Len(After(s, "=")) = 1 THEN "Malformed"
             ELSE "none"

\* C12: HttpRange parsing classifies malformed input in a fixed order after
\* trimming: blank fails with Empty; otherwise no '=' fails with Malformed;
\* otherwise a left side other than "bytes" fails with InvalidUnit; otherwise
\* no '-' on the right side fails with MalformedRange; otherwise "bytes=-"
\* fails with Malformed.
C12_RangeErrorOrder ==
    (call.fn = "HttpRange::from_str" /\ Done /\ PrescribedError(call.text) # "none") =>
        /\ ret.tag = "Err"
        /\ ret.err = PrescribedError(call.text)

\* C12 witness: a padded text with a wrong unit and no '-' is reported as
\* InvalidUnit, the earlier of its two defects.
C12_Witness ==
    /\ call.fn = "HttpRange::from_str"
    /\ Done
    /\ Len(call.text) > 0
    /\ call.text[1] = " "
    /\ Contains(call.text, "=")
    /\ ~Contains(call.text, "-")
    /\ ret.tag = "Err"
    /\ ret.err = "InvalidUnit"

\* What precedes the first occurrence of c in s (c occurs in s).
Before(s, c) ==
    LET at == CHOOSE i \in 1..Len(s) : s[i] = c /\ \A j \in 1..(i - 1) : s[j] # c
    IN  [i \in 1..(at - 1) |-> s[i]]

\* The text is "bytes <range>/<size>" up to surrounding spaces.
ContentRangeFramed(text) ==
    /\ ~Blank(text)
    /\ Len(Core(text)) >= Len(UNIT) + 1
    /\ \A i \in 1..Len(UNIT) : Core(text)[i] = UNIT[i]
    /\ Core(text)[Len(UNIT) + 1] = " "
    /\ Contains(After(Core(text), " "), "/")

\* The range side of a framed Content-Range text.
RangeSideOf(text) == Before(After(Core(text), " "), "/")

\* The range side is not "*" and its split on the first '-' leaves the start
\* half or the end half empty.
HasEmptyHalf(text) ==
    /\ ContentRangeFramed(text)
    /\ Contains(RangeSideOf(text), "-")
    /\ \/ Len(Before(RangeSideOf(text), "-")) = 0
       \/ Len(After(RangeSideOf(text), "-")) = 0

\* C13 as stated: a Content-Range whose range side has an empty start half
\* or end half fails with MalformedRange.
C13_EmptyHalfMalformedRange ==
    (call.fn = "HttpContentRange::from_str" /\ Done /\ HasEmptyHalf(call.text)) =>
        (ret.tag = "Err" /\ ret.err = "MalformedRange")

\* C13 amended: a Content-Range whose range side has an empty start half or
\* end half fails with InvalidRangePiece, the empty half being rejected by
\* the integer parser.
C13_EmptyHalfInvalidRangePiece ==
    (call.fn = "HttpContentRange::from_str" /\ Done /\ HasEmptyHalf(call.text)) =>
        (ret.tag = "Err" /\ ret.err = "InvalidRangePiece")

\* C13 witness: "bytes -<end>/<size>" with digits for end and size has been
\* parsed and rejected.
C13_Witness ==
    /\ call.fn = "HttpContentRange::from_str"
    /\ Done
    /\ HasEmptyHalf(call.text)
    /\ Len(Before(RangeSideOf(call.text), "-")) = 0
    /\ Len(After(RangeSideOf(call.text), "-")) > 0
    /\ \A i \in 1..Len(After(RangeSideOf(call.text), "-")) :
           IsDigit(After(RangeSideOf(call.text), "-")[i])
    /\ IsDigit(call.text[Len(call.text)])
    /\ ret.tag = "Err"

\* C14: for every size >= 1 and every HttpRange r, file_range(size, Some(r))
\* produces a Content-Range (the Bound header of a success or the
\* Unsatisfiable header of a failure) and that Content-Range satisfies
\* matches_requested_range(r).
C14_EngineMatchesPredicate ==
    /\ (call.fn = "file_range" /\ Done /\ call.http_range.tag = "Some") =>
           ret.tag \in {"Ok", "Err"}
    /\ (/\ call.fn = "matches_requested_range"
        /\ "resolved_size" \in DOMAIN call
        /\ Done) => ret.val = TRUE

====
